---- MODULE Spec2Model ----
(***************************************************************************)
(* Model of analyze_prs.py: the revert-chain resolver                      *)
(* (extract_original_subject, filter_revert_chains), the scoring loop with *)
(* its response cache (score_prs, get_cached_response, cache_response) and *)
(* the analysis store (save_analysis_to_db).                               *)
(*                                                                         *)
(* Text is a sequence of one-character strings; a fixed block of text is   *)
(* one multi-character element.  An optional value (a Python None, an      *)
(* absent dict key) is <<>> and a present value v is <<v>>.                *)
(***************************************************************************)
EXTENDS Integers, Sequences, FiniteSets, TLC

\* ------------------------------------------------------------------ bounds
MaxPRs == 3
MaxDate == 2
MaxRerunPRs == 2
MaxSaveLen == 2
MaxCommits == 2
MaxMerges == 2
MaxNesting == 2
MaxRuns == 2

\* ------------------------------------------------------- text primitives
Whitespace == {" ", "\n"}

DigitChars == <<"0", "1", "2", "3", "4", "5", "6", "7", "8", "9">>

IsDigit(ch) == \E i \in 1..10 : DigitChars[i] = ch

RECURSIVE IntStr(_)
\* str(n) for a non-negative integer
IntStr(n) ==
    IF n < 10 THEN <<DigitChars[n + 1]>>
    ELSE IntStr(n \div 10) \o <<DigitChars[(n % 10) + 1]>>

RECURSIVE LStrip(_)
LStrip(s) ==
    IF s # <<>> /\ Head(s) \in Whitespace THEN LStrip(Tail(s)) ELSE s

RECURSIVE RStrip(_)
RStrip(s) ==
    IF s # <<>> /\ s[Len(s)] \in Whitespace
    THEN RStrip(SubSeq(s, 1, Len(s) - 1)) ELSE s

\* str.strip()
Strip(s) == RStrip(LStrip(s))

\* str.rfind(ch) as a 1-based position, 0 when ch does not occur
RFind(s, ch) ==
    LET hits == {i \in 1..Len(s) : s[i] = ch}
    IN  IF hits = {} THEN 0 ELSE CHOOSE i \in hits : \A j \in hits : j <= i

\* s[n:] of Python, n characters dropped
Drop(s, n) == SubSeq(s, n + 1, Len(s))

RevertWord == <<"e", "v", "e", "r", "t">>

\* re.match(r"^[Rr]evert:", s)
MatchRevertColon(s) ==
    /\ Len(s) >= 7
    /\ s[1] \in {"R", "r"}
    /\ SubSeq(s, 2, 6) = RevertWord
    /\ s[7] = ":"

\* re.match(r"^[Rr]evert ", s)
MatchRevertSpace(s) ==
    /\ Len(s) >= 7
    /\ s[1] \in {"R", "r"}
    /\ SubSeq(s, 2, 6) = RevertWord
    /\ s[7] = " "

\* ------------------------------------------------ extract_original_subject
\* The position of the first q after the opening character (0 if none).
FirstQuoteAfterOpen(s, q) ==
    IF \E i \in 2..Len(s) : s[i] = q
    THEN CHOOSE i \in 2..Len(s) : s[i] = q /\ \A j \in 2..(i - 1) : s[j] # q
    ELSE 0

\* The quoted branch had it closed the title at the first later quote.
QuotedRemainderFirstQuote(after_revert, q) ==
    LET first_quote_pos == FirstQuoteAfterOpen(after_revert, q)
    IN  IF first_quote_pos > 1
        THEN [matched |-> TRUE,
              subject |-> SubSeq(after_revert, 2, first_quote_pos - 1)]
        ELSE [matched |-> FALSE, subject |-> <<>>]

\* The branch for a remainder that opens with the quote q: the text between
\* the opening quote and the last q, or no match when q does not occur again.
QuotedRemainder(after_revert, q) ==
    LET last_quote_pos == RFind(after_revert, q)
    IN  IF last_quote_pos > 1
        THEN [matched |-> TRUE,
              subject |-> SubSeq(after_revert, 2, last_quote_pos - 1)]
        ELSE [matched |-> FALSE, subject |-> <<>>]

\* One pass of the while loop: whether a revert prefix was stripped and the
\* subject that is left.
StripRevertPrefix(current_subject) ==
    IF MatchRevertColon(current_subject)
    THEN [matched |-> TRUE, subject |-> Strip(Drop(current_subject, 7))]
    ELSE IF MatchRevertSpace(current_subject)
    THEN LET after_revert == Drop(current_subject, 7)
         IN  IF after_revert # <<>> /\ Head(after_revert) = "\""
             THEN QuotedRemainder(after_revert, "\"")
             ELSE IF after_revert # <<>> /\ Head(after_revert) = "'"
             THEN QuotedRemainder(after_revert, "'")
             ELSE [matched |-> TRUE, subject |-> after_revert]
    ELSE [matched |-> FALSE, subject |-> current_subject]

\* What the loop does to is_revert when a prefix was stripped.
RevertFlagAfterStrip(is_revert) == TRUE

RECURSIVE ExtractLoop(_, _)
ExtractLoop(current_subject, is_revert) ==
    LET step == StripRevertPrefix(current_subject)
    IN  IF step.matched
        THEN ExtractLoop(step.subject, RevertFlagAfterStrip(is_revert))
        ELSE [subject |-> current_subject, is_revert |-> is_revert]

extract_original_subject(subject) == ExtractLoop(subject, FALSE)

\* The longest run of digits that ends at position i (0 when s[i] is none).
RECURSIVE DigitsBefore(_, _)
DigitsBefore(s, i) ==
    IF i >= 1 /\ IsDigit(s[i]) THEN 1 + DigitsBefore(s, i - 1) ELSE 0

\* re.sub(r'\s*\(#\d+\)$', '', s)
NormalizeSubject(s) ==
    LET n == Len(s)
        d == IF n >= 1 /\ s[n] = ")" THEN DigitsBefore(s, n - 1) ELSE 0
        open == n - d - 2
    IN  IF d >= 1 /\ open >= 1 /\ s[open] = "(" /\ s[open + 1] = "#"
        THEN RStrip(SubSeq(s, 1, open - 1))
        ELSE s

\* ---------------------------------------------------- filter_revert_chains
RevertChainAssessment == <<"Part of revert chain - no net impact">>

\* The entry the first loop appends to commits_by_subject for one change.
ChainEntry(pr) ==
    LET ex == extract_original_subject(pr.merge_subject)
    IN  [pr |-> pr,
         is_revert |-> ex.is_revert,
         original_subject |-> ex.subject,
         normalized_subject |-> NormalizeSubject(ex.subject),
         merge_date |-> pr.merge_date]

ChainEntries(pr_list) == [i \in 1..Len(pr_list) |-> ChainEntry(pr_list[i])]

\* What the first loop derives from the subject of each change.
ParsedSubjects(pr_list) ==
    [i \in 1..Len(pr_list) |->
        [is_revert |-> ChainEntry(pr_list[i]).is_revert,
         original_subject |-> ChainEntry(pr_list[i]).original_subject,
         normalized_subject |-> ChainEntry(pr_list[i]).normalized_subject]]

\* The keys of commits_by_subject in insertion order.
RECURSIVE SubjectKeys(_, _)
SubjectKeys(entries, seen) ==
    IF entries = <<>> THEN <<>>
    ELSE LET k == Head(entries).normalized_subject
         IN  IF k \in seen THEN SubjectKeys(Tail(entries), seen)
             ELSE <<k>> \o SubjectKeys(Tail(entries), seen \cup {k})

\* commits_by_subject[key]: the entries of one group in input order.
GroupOf(entries, key) ==
    LET InGroup(c) == c.normalized_subject = key
    IN  SelectSeq(entries, InGroup)

\* list.sort(key=merge_date): stable, ascending.
RECURSIVE InsertByDate(_, _)
InsertByDate(sorted, c) ==
    IF sorted = <<>> THEN <<c>>
    ELSE IF sorted[Len(sorted)].merge_date <= c.merge_date
         THEN Append(sorted, c)
         ELSE Append(InsertByDate(SubSeq(sorted, 1, Len(sorted) - 1), c),
                     sorted[Len(sorted)])

RECURSIVE SortInto(_, _)
SortInto(sorted, rest) ==
    IF rest = <<>> THEN sorted
    ELSE SortInto(InsertByDate(sorted, Head(rest)), Tail(rest))

\* SortByMergeDate that leaves the group in input order.
SortByMergeDateUnsorted(commits) == commits

SortByMergeDate(commits) == SortInto(<<>>, commits)

\* WalkStep that keeps the earlier final_commit when the state turns False.
WalkStepKeepsFinal(w, commit) ==
    LET state == IF commit.is_revert THEN ~w.state ELSE TRUE
    IN  [state |-> state,
         final_commit |-> IF state THEN <<commit>> ELSE w.final_commit]

\* One pass of the walk: the new state and final_commit after one member.
WalkStep(w, commit) ==
    LET state == IF commit.is_revert THEN ~w.state ELSE TRUE
    IN  [state |-> state,
         final_commit |-> IF state THEN <<commit>> ELSE <<>>]

RECURSIVE WalkFrom(_, _)
WalkFrom(w, commits) ==
    IF commits = <<>> THEN w
    ELSE WalkFrom(WalkStep(w, Head(commits)), Tail(commits))

\* ChainWalk that starts from state = True.
ChainWalkStartsActive(commits) ==
    WalkFrom([state |-> TRUE, final_commit |-> <<>>], commits)

\* The walk over a sorted group, from state = False, final_commit = None.
ChainWalk(commits) ==
    WalkFrom([state |-> FALSE, final_commit |-> <<>>], commits)

\* The copy the second loop makes of a member that is not the final commit.
ZeroScored(pr) ==
    [pr EXCEPT !.impact_score = <<0>>,
               !.impact_assessment = <<RevertChainAssessment>>]

\* AssignChainScores that gives the score 0 to the revert members only.
AssignChainScoresRevertsOnly(commits, final_commit) ==
    [i \in 1..Len(commits) |->
        IF <<commits[i]>> = final_commit \/ ~commits[i].is_revert
        THEN commits[i].pr
        ELSE ZeroScored(commits[i].pr)]

\* The second loop: what the group appends to all_prs.
AssignChainScores(commits, final_commit) ==
    [i \in 1..Len(commits) |->
        IF <<commits[i]>> = final_commit
        THEN commits[i].pr
        ELSE ZeroScored(commits[i].pr)]

\* GroupOutput that treats a lone revert as a chain with no net impact.
GroupOutputZeroesLoneRevert(commits) ==
    IF Len(commits) = 1
    THEN IF commits[1].is_revert
         THEN <<ZeroScored(commits[1].pr)>>
         ELSE <<commits[1].pr>>
    ELSE LET sorted == SortByMergeDate(commits)
         IN  AssignChainScores(sorted, ChainWalk(sorted).final_commit)

\* What one subject group appends to all_prs.
GroupOutput(commits) ==
    IF Len(commits) = 1
    THEN <<commits[1].pr>>
    ELSE LET sorted == SortByMergeDate(commits)
         IN  AssignChainScores(sorted, ChainWalk(sorted).final_commit)

RECURSIVE ConcatGroups(_, _)
ConcatGroups(entries, keys) ==
    IF keys = <<>> THEN <<>>
    ELSE GroupOutput(GroupOf(entries, Head(keys)))
            \o ConcatGroups(entries, Tail(keys))

\* filter_revert_chains that removes the zero-scored members of a chain.
FilterDropsReverted(pr_list) ==
    LET entries == ChainEntries(pr_list)
        Kept(pr) == pr.impact_score # <<0>>
    IN  SelectSeq(ConcatGroups(entries, SubjectKeys(entries, {})), Kept)

filter_revert_chains(pr_list) ==
    LET entries == ChainEntries(pr_list)
    IN  ConcatGroups(entries, SubjectKeys(entries, {}))

\* ------------------------------------------------------- the response cache
\* get_prompt_hash: the text that is hashed.  SHA-256 is taken to be
\* collision free, so the key is represented by the hashed text itself.
get_prompt_hash(prompt_content, model) == model \o <<":">> \o prompt_content

\* SELECT response_content FROM llm_cache WHERE prompt_hash = ?; fetchone().
\* <<>> is None, <<r>> is the response r.
get_cached_response(cache_db, prompt_content, model) ==
    LET prompt_hash == get_prompt_hash(prompt_content, model)
        rows == {r \in cache_db : r.prompt_hash = prompt_hash}
    IN  IF rows = {} THEN <<>>
        ELSE <<(CHOOSE r \in rows : TRUE).response_content>>

\* cache_response whose INSERT is never committed.
cache_response_uncommitted(cache_db, prompt_content, model, response_content) ==
    cache_db

\* INSERT OR REPLACE INTO llm_cache: prompt_hash is UNIQUE, so the rows that
\* hold the same prompt_hash are deleted before the new row is inserted.
cache_response(cache_db, prompt_content, model, response_content) ==
    LET prompt_hash == get_prompt_hash(prompt_content, model)
    IN  {r \in cache_db : r.prompt_hash # prompt_hash}
            \cup {[prompt_hash |-> prompt_hash,
                   prompt_content |-> prompt_content,
                   response_content |-> response_content,
                   model |-> model]}

\* ------------------------------------------------------------- score_prs
\* The lines of context that list pr['pr_commits'].
RECURSIVE CommitLines(_)
CommitLines(pr_commits) ==
    IF pr_commits = <<>> THEN <<>>
    ELSE <<"\n", "- ">> \o Head(pr_commits).subject
            \o <<" (">> \o IntStr(Head(pr_commits).date) \o <<")">>
            \o CommitLines(Tail(pr_commits))

\* full_prompt for one change (include_diff is False, its default).
BuildPrompt(pr) ==
    <<"SCORING_CRITERIA", "\n", "\n", "\n", "Merge Analysis:", "\n">>
    \o <<"- Subject: ">> \o pr.merge_subject \o <<"\n">>
    \o <<"- Author: ", pr.author, "\n">>
    \o <<"- Commits: ">> \o IntStr(pr.commits_count) \o <<"\n">>
    \o <<"- Lines Added: ">> \o IntStr(pr.additions) \o <<"\n">>
    \o <<"- Lines Deleted: ">> \o IntStr(pr.deletions) \o <<"\n">>
    \o <<"- Files Changed: ">> \o IntStr(pr.files_changed) \o <<"\n">>
    \o <<"- Development Time: ">> \o IntStr(pr.development_hours)
    \o <<" hours", "\n">>
    \o <<"- Review Time: ">> \o IntStr(pr.review_hours) \o <<" hours", "\n">>
    \o <<"- Merge Date: ">> \o IntStr(pr.merge_date) \o <<"\n">>
    \o (IF pr.pr_commits # <<>>
        THEN <<"\n", "Commits:">> \o CommitLines(pr.pr_commits) ELSE <<>>)
    \o (IF pr.merge_message # <<>> /\ pr.merge_message # pr.merge_subject
        THEN <<"\n", "\n", "Full Commit Message:", "\n">> \o pr.merge_message
        ELSE <<>>)
    \o <<"\n", "\n", "Provide the analysis in the exact JSON format">>

\* A response text is a sequence of elements: "FJ" is the text ```json, "F"
\* is the text ```, a whitespace character, or one of the JSON texts below.
ObjValid == "{\"impact_score\": 3, \"impact_assessment\": \"moderate\"}"
ObjHigh == "{\"impact_score\": 7, \"impact_assessment\": \"huge\"}"
ObjEmpty == "{}"
ObjAuthor == "{\"impact_score\": 3, \"impact_assessment\": \"moderate\", \"author\": \"mallory\"}"
JsonNumber == "4"
NotJson == "I cannot assess this merge."

\* json.loads of a single JSON text: whether it is an object, the two keys
\* the prompt asks for (<<>> when the object does not carry the key), and
\* the other keys of the object as pairs of key and value.
JsonValue(text) ==
    IF text = ObjValid
    THEN [is_dict |-> TRUE, impact_score |-> <<3>>,
          impact_assessment |-> <<<<"moderate">>>>, extra |-> {}]
    ELSE IF text = ObjHigh
    THEN [is_dict |-> TRUE, impact_score |-> <<7>>,
          impact_assessment |-> <<<<"huge">>>>, extra |-> {}]
    ELSE IF text = ObjEmpty
    THEN [is_dict |-> TRUE, impact_score |-> <<>>,
          impact_assessment |-> <<>>, extra |-> {}]
    ELSE IF text = ObjAuthor
    THEN [is_dict |-> TRUE, impact_score |-> <<3>>,
          impact_assessment |-> <<<<"moderate">>>>,
          extra |-> {<<"author", "mallory">>}]
    ELSE [is_dict |-> FALSE, impact_score |-> <<>>,
          impact_assessment |-> <<>>, extra |-> {}]

JsonTexts == {ObjValid, ObjHigh, ObjEmpty, ObjAuthor, JsonNumber}

\* str.find('```') as a 1-based position, 0 when there is no fence.
FindFence(s) ==
    LET hits == {i \in 1..Len(s) : s[i] \in {"F", "FJ"}}
    IN  IF hits = {} THEN 0 ELSE CHOOSE i \in hits : \A j \in hits : i <= j

\* The clean-up of Markdown formatting before json.loads.
CleanContent(content) ==
    LET stripped == Strip(content)
        cleaned ==
            IF stripped # <<>> /\ Head(stripped) = "FJ"
            THEN LET rest == Tail(stripped)
                     end_marker == FindFence(rest)
                 IN  IF end_marker # 0
                     THEN SubSeq(rest, 1, end_marker - 1) ELSE rest
            ELSE IF stripped # <<>> /\ stripped[Len(stripped)] = "F"
            THEN SubSeq(stripped, 1, Len(stripped) - 1)
            ELSE stripped
    IN  Strip(cleaned)

\* The try block of score_prs for one content: the keys pr.update(scores)
\* sets, or the exception that sends the change to the default score.
ParseScores(content) ==
    IF content = <<>>
    THEN [ok |-> FALSE, error |-> "Empty response from OpenAI API",
          impact_score |-> <<>>, impact_assessment |-> <<>>, extra |-> {}]
    ELSE LET cleaned == CleanContent(content)
         IN  IF Len(cleaned) = 1 /\ cleaned[1] \in JsonTexts
             THEN LET scores == JsonValue(cleaned[1])
                  IN  IF scores.is_dict
                      THEN [ok |-> TRUE, error |-> "",
                            impact_score |-> scores.impact_score,
                            impact_assessment |-> scores.impact_assessment,
                            extra |-> scores.extra]
                      ELSE [ok |-> FALSE, error |-> "TypeError",
                            impact_score |-> <<>>, impact_assessment |-> <<>>,
                            extra |-> {}]
             ELSE [ok |-> FALSE, error |-> "JSONDecodeError",
                   impact_score |-> <<>>, impact_assessment |-> <<>>,
                   extra |-> {}]

\* The score the except branch assigns.
DefaultScore == 1

\* dict.update for the keys the change already has: a key of the pairs
\* takes the value paired with it, every other key keeps its value.
UpdateKeys(pr, pairs) ==
    [f \in DOMAIN pr |->
        IF \E kv \in pairs : kv[1] = f
        THEN (CHOOSE kv \in pairs : kv[1] = f)[2]
        ELSE pr[f]]

\* The change after the try/except of score_prs for one content:
\* pr.update(scores) sets every key of the object the response holds.
ApplyScores(pr, content) ==
    LET parsed == ParseScores(content)
    IN  IF parsed.ok
        THEN UpdateKeys(
               [pr EXCEPT
                !.impact_score = IF parsed.impact_score # <<>>
                                 THEN parsed.impact_score ELSE @,
                !.impact_assessment = IF parsed.impact_assessment # <<>>
                                      THEN parsed.impact_assessment ELSE @],
               parsed.extra)
        ELSE [pr EXCEPT
                !.impact_score = <<DefaultScore>>,
                !.impact_assessment =
                    <<<<"Error during analysis: ", parsed.error>>>>]

\* The test at the head of the loop of score_prs.
SkipsScoring(pr) == pr.impact_score = <<0>>

\* ---------------------------------------------------- save_analysis_to_db
\* The tuple bound to the INSERT statement; reading pr['impact_score'] or
\* pr['impact_assessment'] of a change without that key raises KeyError.
HasAllKeys(pr) == pr.impact_score # <<>> /\ pr.impact_assessment # <<>>

AnalysisRow(pr) ==
    [merge_hash |-> pr.merge_hash,
     merge_subject |-> pr.merge_subject,
     merge_message |-> pr.merge_message,
     author |-> pr.author,
     merge_date |-> pr.merge_date,
     commits_count |-> pr.commits_count,
     additions |-> pr.additions,
     deletions |-> pr.deletions,
     files_changed |-> pr.files_changed,
     development_hours |-> pr.development_hours,
     review_hours |-> pr.review_hours,
     impact_score |-> pr.impact_score[1],
     impact_assessment |-> pr.impact_assessment[1]]

\* InsertOrReplace as INSERT OR IGNORE: a row that holds the merge_hash stays.
InsertOrIgnore(rows, pr) ==
    IF \E r \in rows : r.merge_hash = pr.merge_hash
    THEN rows
    ELSE rows \cup {AnalysisRow(pr)}

\* INSERT OR REPLACE INTO pr_analysis: merge_hash is UNIQUE, so the rows that
\* hold the same merge_hash are deleted before the new row is inserted.
InsertOrReplace(rows, pr) ==
    {r \in rows : r.merge_hash # pr.merge_hash} \cup {AnalysisRow(pr)}

RECURSIVE InsertAll(_, _)
InsertAll(rows, prs) ==
    IF prs = <<>> THEN rows
    ELSE InsertAll(InsertOrReplace(rows, Head(prs)), Tail(prs))

\* The whole call: the statements run in one transaction that is committed
\* after the loop, so an exception inside the loop leaves the table as it was.
save_analysis_to_db(rows, prs) ==
    IF \A i \in 1..Len(prs) : HasAllKeys(prs[i])
    THEN [raised |-> FALSE, rows |-> InsertAll(rows, prs)]
    ELSE [raised |-> TRUE, rows |-> rows]

\* -------------------------------------------- the version-control queries
\* What the repository answers for one merge candidate is a record vc:
\* vc.show[h] is the answer of `git show --stat` for the commit h, vc.parent
\* the answer of the first-parent query and vc.range the answer of the range
\* query.  An answer with failed = TRUE is a git command that exits non-zero:
\* run_git_command then ends the process with sys.exit(1).

\* get_commit_details: <<>> is the dict {} (no output, or a first line with
\* fewer than five fields), <<d>> the details d.
get_commit_details(vc, commit_hash) ==
    LET answer == vc.show[commit_hash]
    IN  IF answer.failed THEN [exits |-> TRUE, details |-> <<>>]
        ELSE IF ~answer.parses THEN [exits |-> FALSE, details |-> <<>>]
        ELSE [exits |-> FALSE,
              details |-> <<[body |-> answer.body,
                             additions |-> answer.additions,
                             deletions |-> answer.deletions,
                             files_changed |-> answer.files_changed]>>]

\* details.get(key, 0)
DetailsGet(details, key) == IF details = <<>> THEN 0 ELSE details[1][key]

\* get_parent_commits: [output] if output else []
get_parent_commits(vc) ==
    IF vc.parent.failed THEN [exits |-> TRUE, parents |-> <<>>]
    ELSE [exits |-> FALSE, parents |-> vc.parent.output]

\* ------------------------------------------------- get_commit_range_details
\* The commit_info the loop over the lines of the range builds from a line.
CommitInfo(line) ==
    [hash |-> line.hash,
     author |-> line.author,
     email |-> line.email,
     date |-> line.date,
     subject |-> line.subject]

\* pr_commits: a line that does not split into five fields is skipped.
ParseRangeLines(lines) ==
    LET WellFormed(line) == line.well_formed
        kept == SelectSeq(lines, WellFormed)
    IN  [i \in 1..Len(kept) |-> CommitInfo(kept[i])]

\* user_commits: the commits of pr_commits whose author is in users.
UserCommits(pr_commits, users) ==
    LET ByUser(c) == c.author \in users
    IN  SelectSeq(pr_commits, ByUser)

\* min(commits, key=date): the first commit that has the least date.
MinByDate(commits) ==
    commits[CHOOSE i \in 1..Len(commits) :
                /\ \A j \in 1..Len(commits) : commits[i].date <= commits[j].date
                /\ \A j \in 1..(i - 1) : commits[j].date > commits[i].date]

\* max(commits, key=date): the first commit that has the greatest date.
MaxByDate(commits) ==
    commits[CHOOSE i \in 1..Len(commits) :
                /\ \A j \in 1..Len(commits) : commits[i].date >= commits[j].date
                /\ \A j \in 1..(i - 1) : commits[j].date < commits[i].date]

\* full_merge_message: the subject, and the body when it is not blank.
FullMergeMessage(merge_commit, merge_details) ==
    LET merge_message == IF merge_details = <<>> THEN <<>>
                         ELSE merge_details[1].body
    IN  IF Strip(merge_message) # <<>>
        THEN merge_commit.subject \o <<"\n", "\n">> \o Strip(merge_message)
        ELSE merge_commit.subject

\* The dict the function returns; the keys impact_score and
\* impact_assessment are absent from it.
ChangeRecord(merge_commit, merge_message, author, relevant_commits, commits_count, first_date, last_date, hours, stats) ==
    [merge_hash |-> merge_commit.hash,
     merge_subject |-> merge_commit.subject,
     merge_message |-> merge_message,
     merge_date |-> merge_commit.date,
     author |-> author,
     commits_count |-> commits_count,
     first_commit_date |-> first_date,
     last_commit_date |-> last_date,
     development_hours |-> hours.development,
     review_hours |-> hours.review,
     additions |-> stats.additions,
     deletions |-> stats.deletions,
     files_changed |-> stats.files_changed,
     description |-> merge_commit.subject,
     pr_commits |-> relevant_commits,
     impact_score |-> <<>>,
     impact_assessment |-> <<>>]

NoHours == [development |-> 0, review |-> 0]

NoStats == [additions |-> 0, deletions |-> 0, files_changed |-> 0]

\* SquashedStats that reports no size at all.
SquashedStatsZero(details) == NoStats

\* The size of a squashed change: the stats of the commit itself.
SquashedStats(details) ==
    [additions |-> DetailsGet(details, "additions"),
     deletions |-> DetailsGet(details, "deletions"),
     files_changed |-> DetailsGet(details, "files_changed")]

\* The branch for a squashed commit by a tracked author.
SquashedChange(merge_commit, merge_message, details) ==
    ChangeRecord(merge_commit, merge_message, merge_commit.author,
                 <<[hash |-> merge_commit.hash,
                    author |-> merge_commit.author,
                    email |-> "",
                    date |-> merge_commit.date,
                    subject |-> merge_commit.subject]>>,
                 1, merge_commit.date, merge_commit.date, NoHours,
                 SquashedStats(details))

\* The branch for a merge without a parent or with an empty range.
DegenerateChange(merge_commit, merge_message) ==
    ChangeRecord(merge_commit, merge_message, merge_commit.author, <<>>,
                 1, merge_commit.date, merge_commit.date, NoHours, NoStats)

\* IsIncluded that admits every merge.
IsIncludedAlways(merge_author_match, user_commits) == TRUE

\* The test `if not merge_author_match and not user_commits: return {}`.
IsIncluded(merge_author_match, user_commits) ==
    merge_author_match \/ user_commits # <<>>

\* relevant_commits = user_commits if user_commits else pr_commits
RelevantCommits(user_commits, pr_commits) ==
    IF user_commits # <<>> THEN user_commits ELSE pr_commits

\* SizeCommits that measures the relevant commits only.
SizeCommitsRelevantOnly(pr_commits, relevant_commits) == relevant_commits

\* The commits the loop that totals the changes runs over.
SizeCommits(pr_commits, relevant_commits) == pr_commits

\* The loop `for commit in pr_commits`: it stops with the process when a
\* lookup fails, else it sums additions and deletions and keeps the greatest
\* files_changed.
RECURSIVE TotalChanges(_, _, _)
TotalChanges(vc, commits, total) ==
    IF commits = <<>> THEN [exits |-> FALSE, stats |-> total]
    ELSE LET looked == get_commit_details(vc, Head(commits).hash)
             files == DetailsGet(looked.details, "files_changed")
         IN  IF looked.exits THEN [exits |-> TRUE, stats |-> total]
             ELSE TotalChanges(vc, Tail(commits),
                    [additions |-> total.additions
                                    + DetailsGet(looked.details, "additions"),
                     deletions |-> total.deletions
                                    + DetailsGet(looked.details, "deletions"),
                     files_changed |-> IF files > total.files_changed
                                       THEN files ELSE total.files_changed])

Exits == [exits |-> TRUE, change |-> <<>>]

Returns(change) == [exits |-> FALSE, change |-> change]

\* The part of the function after the range was parsed.
RangeChange(vc, merge_commit, merge_message, users, pr_commits) ==
    LET merge_author_match == merge_commit.author \in users
        user_commits == UserCommits(pr_commits, users)
        relevant_commits == RelevantCommits(user_commits, pr_commits)
        first_commit == IF relevant_commits # <<>>
                        THEN MinByDate(relevant_commits) ELSE merge_commit
        last_commit == IF relevant_commits # <<>>
                       THEN MaxByDate(relevant_commits) ELSE merge_commit
        hours == IF relevant_commits # <<>>
                 THEN [development |-> last_commit.date - first_commit.date,
                       review |-> merge_commit.date - last_commit.date]
                 ELSE NoHours
        total == TotalChanges(vc, SizeCommits(pr_commits, relevant_commits),
                              NoStats)
    IN  IF ~IsIncluded(merge_author_match, user_commits) THEN Returns(<<>>)
        ELSE IF total.exits THEN Exits
        ELSE Returns(<<ChangeRecord(merge_commit, merge_message,
                                    first_commit.author, relevant_commits,
                                    Len(relevant_commits), first_commit.date,
                                    last_commit.date, hours, total.stats)>>)

\* Zero or one change for a merge candidate: <<>> is the dict {}.
get_commit_range_details(vc, merge_commit, users) ==
    LET merge_author_match == merge_commit.author \in users
        merge_details == get_commit_details(vc, merge_commit.hash)
        merge_message == FullMergeMessage(merge_commit, merge_details.details)
        parents == get_parent_commits(vc)
    IN  IF merge_details.exits THEN Exits
        ELSE IF ~merge_commit.is_traditional_merge
        THEN IF merge_author_match
             THEN Returns(<<SquashedChange(merge_commit, merge_message,
                                           merge_details.details)>>)
             ELSE Returns(<<>>)
        ELSE IF parents.exits THEN Exits
        ELSE IF parents.parents = <<>>
        THEN IF merge_author_match
             THEN Returns(<<DegenerateChange(merge_commit, merge_message)>>)
             ELSE Returns(<<>>)
        ELSE IF vc.range.failed THEN Exits
        ELSE IF vc.range.lines = <<>>
        THEN IF merge_author_match
             THEN Returns(<<DegenerateChange(merge_commit, merge_message)>>)
             ELSE Returns(<<>>)
        ELSE RangeChange(vc, merge_commit, merge_message, users,
                         ParseRangeLines(vc.range.lines))

\* ------------------------------------------------------------------ state
VARIABLES
    pc,            \* where main is: "filter", "score", "save", "done",
                   \* "crashed" (an uncaught exception), "idle" (not running)
    run,           \* which run of main this is
    pr_data,       \* the changes main collected from the merge commits
    all_prs,       \* filtered_pr_data, the result of filter_revert_chains
    parsed,        \* history: what the first loop of filter_revert_chains
                   \* computed for each change of pr_data
    idx,           \* position of the loop of score_prs in all_prs
    scored_prs,    \* the list score_prs builds
    cache_db,      \* the rows of table llm_cache
    analysis_db,   \* the rows of table pr_analysis
    api_log,       \* history: the calls made to the scoring API
    cache_reads,   \* history: the changes get_cached_response was called for
    handed,        \* history: the lists given to save_analysis_to_db by main
    db_after,      \* history: analysis_db at the end of each run
    last_cached,   \* history: the last response stored for each (prompt, model)
    lookup,        \* history: the last direct call of get_cached_response
    last_saved,    \* history: the last record committed for each merge_hash
    repo,          \* what the repository answers to the version-control queries
    user_list,     \* the tracked users main got from get_all_users_from_repo
    merge_commits, \* the candidates main got from get_merge_commits
    midx           \* position of the loop of main in merge_commits

vars == <<pc, run, pr_data, all_prs, parsed, idx, scored_prs, cache_db, analysis_db,
          api_log, cache_reads, handed, db_after, last_cached, lookup,
          last_saved, repo, user_list, merge_commits, midx>>

\* ----------------------------------------------------------------- inputs
AddX == <<"A", "d", "d", " ", "X">>
RevertAddX == <<"R", "e", "v", "e", "r", "t", ":", " ">> \o AddX
RevertRevertAddX == <<"R", "e", "v", "e", "r", "t", ":", " ">> \o RevertAddX
FixY == <<"F", "i", "x", " ", "Y", " ", "(", "#", "4", "2", ")">>

\* The subjects of the changes of a range; the ranges that are run twice
\* also hold a revert of a revert.
Subjects == {AddX, RevertAddX, FixY}
RerunSubjects == Subjects \cup {RevertRevertAddX}
Dates == 1..MaxDate

\* The model the run passes to the API (--model, default gpt-4).
Model == <<"gpt-4">>

\* A change as get_commit_range_details returns it for a merge whose own
\* author is tracked and that has no commits of its own: the n-th merge of
\* the range, not scored yet.
NewChange(n, subject, date) ==
    [merge_hash |-> n,
     merge_subject |-> subject,
     merge_message |-> subject,
     author |-> "alice",
     merge_date |-> date,
     commits_count |-> 1,
     additions |-> 0,
     deletions |-> 0,
     files_changed |-> 0,
     development_hours |-> 0,
     review_hours |-> 0,
     pr_commits |-> <<>>,
     impact_score |-> <<>>,
     impact_assessment |-> <<>>]

\* pr_list is a list of at most n changes with pairwise different merge
\* hashes.
IsChangeList(pr_list, n, subjects) ==
    \E k \in 0..n :
        \E subj \in [1..k -> subjects], date \in [1..k -> Dates] :
            pr_list = [i \in 1..k |-> NewChange(i, subj[i], date[i])]

\* What the scoring API can answer.
Contents ==
    {<<ObjValid>>,
     <<"FJ", "\n", ObjValid, "\n", "F">>,
     <<NotJson>>,
     <<ObjHigh>>,
     <<ObjEmpty>>,
     <<ObjAuthor>>}

\* A call of client.chat.completions.create either raises or returns a
\* content, which may be empty.
ApiOutcomes ==
    {[raised |-> TRUE, content |-> <<>>]}
        \cup {[raised |-> FALSE, content |-> c] : c \in Contents \cup {<<>>}}

\* The caches the run can start from: an empty one, or the one an earlier run
\* left that had scored the first change of the range, "Fix Y (#42)".
WarmCaches(prs) ==
    {{}} \cup
    (IF prs # <<>> /\ prs[1].merge_subject = FixY
     THEN {cache_response({}, BuildPrompt(prs[1]), Model, <<ObjValid>>)}
     ELSE {})

NoLookup == [prompt |-> <<>>, model |-> <<>>, result |-> <<>>]

\* The answers of a repository that is not queried.
NoRepo ==
    [users |-> [failed |-> FALSE, authors |-> {}],
     merges |-> [failed |-> FALSE, candidates |-> <<>>],
     vc |-> <<>>]

\* main past the loop that reconstructs the changes.
NoRepoState ==
    /\ repo = NoRepo
    /\ user_list = {}
    /\ merge_commits = <<>>
    /\ midx = 1

InitBounded(n, subjects) ==
    /\ NoRepoState
    /\ pc = "filter"
    /\ run = 1
    /\ IsChangeList(pr_data, n, subjects)
    /\ all_prs = <<>>
    /\ parsed = <<>>
    /\ idx = 1
    /\ scored_prs = <<>>
    /\ cache_db \in WarmCaches(pr_data)
    /\ analysis_db = {}
    /\ api_log = <<>>
    /\ cache_reads = {}
    /\ handed = <<>>
    /\ db_after = <<>>
    /\ last_cached = <<>>
    /\ lookup = NoLookup
    /\ last_saved = <<>>

Init == InitBounded(MaxPRs, Subjects)

\* ----------------------------------------------------------------- actions
\* main, from the test of pr_data to the call of score_prs.
FilterRevertChains ==
    /\ pc = "filter"
    /\ IF pr_data = <<>>
       THEN /\ pc' = "done"
            /\ UNCHANGED <<all_prs, parsed>>
       ELSE /\ all_prs' = filter_revert_chains(pr_data)
            /\ parsed' = ParsedSubjects(pr_data)
            /\ pc' = IF all_prs' = <<>> THEN "done" ELSE "score"
    /\ db_after' = IF pc' = "done" THEN Append(db_after, analysis_db)
                   ELSE db_after
    /\ UNCHANGED <<repo, user_list, merge_commits, midx,
                   run, pr_data, idx, scored_prs, cache_db, analysis_db,
                   api_log, cache_reads, handed, last_cached, lookup,
                   last_saved>>

\* The end of one pass of the loop of score_prs.
AppendScored(pr) ==
    /\ scored_prs' = Append(scored_prs, pr)
    /\ idx' = idx + 1
    /\ pc' = IF idx = Len(all_prs) THEN "save" ELSE "score"

\* One pass of the loop for a change the resolver gave the score 0.
ScoreSkip ==
    /\ pc = "score"
    /\ SkipsScoring(all_prs[idx])
    /\ AppendScored(all_prs[idx])
    /\ UNCHANGED <<repo, user_list, merge_commits, midx,
                   run, pr_data, all_prs, parsed, cache_db, analysis_db, api_log,
                   cache_reads, handed, db_after, last_cached, lookup,
                   last_saved>>

\* A cached response counts when it is not empty.
CacheHit(pr) ==
    LET cached_response == get_cached_response(cache_db, BuildPrompt(pr), Model)
    IN  cached_response # <<>> /\ cached_response[1] # <<>>

\* One pass of the loop that finds the response in the cache.
ScoreFromCache ==
    /\ pc = "score"
    /\ ~SkipsScoring(all_prs[idx])
    /\ CacheHit(all_prs[idx])
    /\ LET pr == all_prs[idx]
           content == get_cached_response(cache_db, BuildPrompt(pr), Model)[1]
       IN  /\ AppendScored(ApplyScores(pr, content))
           /\ cache_reads' = cache_reads \cup {pr.merge_hash}
    /\ UNCHANGED <<repo, user_list, merge_commits, midx,
                   run, pr_data, all_prs, parsed, cache_db, analysis_db, api_log,
                   handed, db_after, last_cached, lookup, last_saved>>

\* One pass of the loop that calls the API.
ScoreFromApi ==
    /\ pc = "score"
    /\ ~SkipsScoring(all_prs[idx])
    /\ ~CacheHit(all_prs[idx])
    /\ \E outcome \in ApiOutcomes :
         LET pr == all_prs[idx]
             content == outcome.content
         IN  /\ cache_db' = IF ~outcome.raised /\ content # <<>>
                            THEN cache_response(cache_db, BuildPrompt(pr),
                                                Model, content)
                            ELSE cache_db
             /\ AppendScored(ApplyScores(pr, content))
             /\ cache_reads' = cache_reads \cup {pr.merge_hash}
             /\ api_log' = Append(api_log, [run |-> run,
                                            merge_hash |-> pr.merge_hash,
                                            raised |-> outcome.raised,
                                            content |-> content])
    /\ UNCHANGED <<repo, user_list, merge_commits, midx,
                   run, pr_data, all_prs, parsed, analysis_db, handed, db_after,
                   last_cached, lookup, last_saved>>

\* main calls save_analysis_to_db(scored_prs) and returns, or dies of the
\* exception the call raised.
SaveAnalysisToDb ==
    /\ pc = "save"
    /\ LET saved == save_analysis_to_db(analysis_db, scored_prs)
       IN  /\ analysis_db' = saved.rows
           /\ pc' = IF saved.raised THEN "crashed" ELSE "done"
           /\ db_after' = Append(db_after, saved.rows)
    /\ handed' = Append(handed, scored_prs)
    /\ UNCHANGED <<repo, user_list, merge_commits, midx,
                   run, pr_data, all_prs, parsed, idx, scored_prs, cache_db, api_log,
                   cache_reads, last_cached, lookup, last_saved>>

Next ==
    \/ FilterRevertChains
    \/ ScoreSkip
    \/ ScoreFromCache
    \/ ScoreFromApi
    \/ SaveAnalysisToDb

Spec == Init /\ [][Next]_vars

\* ------------------------------------------------- two runs over one range
\* main is started again over the same commit range: the changes are rebuilt
\* from the same commits, the two databases are the ones the first run left.
StartSecondRun ==
    /\ pc \in {"done", "crashed"}
    /\ run = 1
    /\ run' = 2
    /\ pc' = "filter"
    /\ all_prs' = <<>>
    /\ parsed' = <<>>
    /\ idx' = 1
    /\ scored_prs' = <<>>
    /\ cache_reads' = {}
    /\ UNCHANGED <<repo, user_list, merge_commits, midx,
                   pr_data, cache_db, analysis_db, api_log, handed, db_after,
                   last_cached, lookup, last_saved>>

InitRerun == InitBounded(MaxRerunPRs, RerunSubjects)

NextRerun == Next \/ StartSecondRun

SpecRerun == InitRerun /\ [][NextRerun]_vars

\* --------------------------------------------- the cache functions by themselves
CacheModels == {<<"ft">>, <<"ft", ":", "gpt-4">>}
CachePrompts == {<<"P">>, <<"gpt-4", ":", "P">>}
CacheResponses == {<<ObjValid>>, <<NotJson>>}
CachePairs == CachePrompts \X CacheModels

InitCache ==
    /\ NoRepoState
    /\ pc = "idle"
    /\ run = 1
    /\ pr_data = <<>>
    /\ all_prs = <<>>
    /\ parsed = <<>>
    /\ idx = 1
    /\ scored_prs = <<>>
    /\ cache_db = {}
    /\ analysis_db = {}
    /\ api_log = <<>>
    /\ cache_reads = {}
    /\ handed = <<>>
    /\ db_after = <<>>
    /\ last_cached = [pair \in CachePairs |-> <<>>]
    /\ lookup = NoLookup
    /\ last_saved = <<>>

\* A call cache_response(prompt, model, response).
CacheResponseCall ==
    \E prompt \in CachePrompts, model \in CacheModels,
       response \in CacheResponses :
        /\ cache_db' = cache_response(cache_db, prompt, model, response)
        /\ last_cached' =
              [last_cached EXCEPT ![<<prompt, model>>] = <<response>>]
        /\ UNCHANGED <<repo, user_list, merge_commits, midx,
                       pc, run, pr_data, all_prs, parsed, idx, scored_prs,
                       analysis_db, api_log, cache_reads, handed, db_after,
                       lookup, last_saved>>

\* A call get_cached_response(prompt, model).
GetCachedResponseCall ==
    \E prompt \in CachePrompts, model \in CacheModels :
        /\ lookup' = [prompt |-> prompt, model |-> model,
                      result |-> get_cached_response(cache_db, prompt, model)]
        /\ UNCHANGED <<repo, user_list, merge_commits, midx,
                       pc, run, pr_data, all_prs, parsed, idx, scored_prs, cache_db,
                       analysis_db, api_log, cache_reads, handed, db_after,
                       last_cached, last_saved>>

NextCache == CacheResponseCall \/ GetCachedResponseCall

SpecCache == InitCache /\ [][NextCache]_vars

\* ----------------------------------------- save_analysis_to_db by itself
StoreHashes == {1, 2}

\* A scored change with merge hash h: score <<>> is a change the scoring
\* left without the key impact_score.
StoreChange(h, score) ==
    [NewChange(h, AddX, 1) EXCEPT
        !.impact_score = score,
        !.impact_assessment = IF score = <<>> THEN <<>> ELSE <<<<"moderate">>>>]

StoreChanges == {StoreChange(h, score) : h \in StoreHashes,
                                          score \in {<<>>, <<1>>, <<3>>}}

InitStore ==
    /\ NoRepoState
    /\ pc = "idle"
    /\ run = 1
    /\ pr_data = <<>>
    /\ all_prs = <<>>
    /\ parsed = <<>>
    /\ idx = 1
    /\ scored_prs = <<>>
    /\ cache_db = {}
    /\ analysis_db = {}
    /\ api_log = <<>>
    /\ cache_reads = {}
    /\ handed = <<>>
    /\ db_after = <<>>
    /\ last_cached = <<>>
    /\ lookup = NoLookup
    /\ last_saved = [h \in StoreHashes |-> <<>>]

\* The last record a list gives for merge hash h, <<>> when it gives none.
LastGiven(prs, h) ==
    LET at == {i \in 1..Len(prs) : prs[i].merge_hash = h}
    IN  IF at = {} THEN <<>>
        ELSE <<prs[CHOOSE i \in at : \A j \in at : j <= i]>>

\* A call save_analysis_to_db(prs).
SaveCall ==
    \E k \in 0..MaxSaveLen :
      \E prs \in [1..k -> StoreChanges] :
        LET saved == save_analysis_to_db(analysis_db, prs)
        IN  /\ analysis_db' = saved.rows
            /\ handed' = <<prs>>
            /\ last_saved' =
                 IF saved.raised THEN last_saved
                 ELSE [h \in StoreHashes |->
                         IF LastGiven(prs, h) = <<>> THEN last_saved[h]
                         ELSE <<AnalysisRow(LastGiven(prs, h)[1])>>]
            /\ UNCHANGED <<repo, user_list, merge_commits, midx,
                           pc, run, pr_data, all_prs, parsed, idx, scored_prs,
                           cache_db, api_log, cache_reads, db_after,
                           last_cached, lookup>>

NextStore == SaveCall

SpecStore == InitStore /\ [][NextStore]_vars

\* ------------------------------------------- the answers of the repository
\* `git show --stat` exits non-zero.
ShowFailed ==
    [failed |-> TRUE, parses |-> FALSE, body |-> <<>>,
     additions |-> 0, deletions |-> 0, files_changed |-> 0]

\* `git show --stat` prints nothing that get_commit_details can parse.
ShowNothing ==
    [failed |-> FALSE, parses |-> FALSE, body |-> <<>>,
     additions |-> 0, deletions |-> 0, files_changed |-> 0]

\* " 3 files changed, 2 insertions(+), 1 deletion(-)" under a header with a
\* body.
ShowStats ==
    [failed |-> FALSE, parses |-> TRUE, body |-> <<"b", "o", "d", "y">>,
     additions |-> 2, deletions |-> 1, files_changed |-> 3]

ShowAnswers == {ShowFailed, ShowNothing, ShowStats}

ParentFailed == [failed |-> TRUE, output |-> <<>>]
ParentNone == [failed |-> FALSE, output |-> <<>>]
ParentResolved == [failed |-> FALSE, output |-> <<0>>]

Authors == {"alice", "bob", "carol"}
TrackedUsers == {"alice", "carol"}
MergeAuthors == {"alice", "bob"}

Wip == <<"w", "i", "p">>

\* The hash of the j-th commit of the range of the merge with hash m.
CommitHash(m, j) == 10 * m + j

\* One line of the range as the repository holds it: a line that splits into
\* five fields, with the answer `git show` gives for its commit, or a line
\* that does not.
RangeEntries ==
    {[well_formed |-> TRUE, author |-> a, date |-> d, show |-> s] :
        a \in Authors, d \in Dates, s \in ShowAnswers}
    \cup {[well_formed |-> FALSE, author |-> "", date |-> 0,
           show |-> ShowNothing]}

\* The answers for the merge with hash m.
MakeVc(m, own, parent, range_failed, entries) ==
    [show |-> [h \in {m} \cup {CommitHash(m, j) : j \in 1..Len(entries)} |->
                  IF h = m THEN own ELSE entries[h - CommitHash(m, 0)].show],
     parent |-> parent,
     range |-> [failed |-> range_failed,
                lines |-> [j \in 1..Len(entries) |->
                             [well_formed |-> entries[j].well_formed,
                              hash |-> CommitHash(m, j),
                              author |-> entries[j].author,
                              email |-> "",
                              date |-> entries[j].date,
                              subject |-> Wip]]]]

\* A candidate as get_merge_commits returns it; the subject of a squashed
\* candidate holds a PR number.
MergeCommit(m, author, traditional) ==
    [hash |-> m,
     author |-> author,
     date |-> MaxDate,
     subject |-> IF traditional THEN AddX ELSE FixY,
     is_traditional_merge |-> traditional]

\* The variables of a run that has not reached filter_revert_chains.
FreshRun ==
    /\ run = 1
    /\ pr_data = <<>>
    /\ all_prs = <<>>
    /\ parsed = <<>>
    /\ idx = 1
    /\ scored_prs = <<>>
    /\ analysis_db = {}
    /\ api_log = <<>>
    /\ cache_reads = {}
    /\ handed = <<>>
    /\ db_after = <<>>
    /\ last_cached = <<>>
    /\ lookup = NoLookup
    /\ last_saved = <<>>

\* --------------------------------------- get_commit_range_details by itself
\* The repository as main sees it when its only candidate is mc.
RangeRepo(mc, vc) ==
    [users |-> [failed |-> FALSE, authors |-> TrackedUsers],
     merges |-> [failed |-> FALSE, candidates |-> <<mc>>],
     vc |-> <<vc>>]

\* main at the head of its loop over one candidate: a squashed commit, a
\* merge whose parent query fails or finds nothing, a merge whose range
\* query fails, or a merge with a range of at most MaxCommits lines.
InitRange ==
    /\ pc = "reconstruct"
    /\ FreshRun
    /\ cache_db = {}
    /\ user_list = TrackedUsers
    /\ midx = 1
    /\ \E author \in MergeAuthors, own \in ShowAnswers :
          \/ /\ merge_commits = <<MergeCommit(1, author, FALSE)>>
             /\ repo = RangeRepo(MergeCommit(1, author, FALSE),
                                 MakeVc(1, own, ParentNone, FALSE, <<>>))
          \/ /\ merge_commits = <<MergeCommit(1, author, TRUE)>>
             /\ \/ \E parent \in {ParentFailed, ParentNone} :
                      repo = RangeRepo(MergeCommit(1, author, TRUE),
                                       MakeVc(1, own, parent, FALSE, <<>>))
                \/ repo = RangeRepo(MergeCommit(1, author, TRUE),
                                    MakeVc(1, own, ParentResolved, TRUE, <<>>))
                \/ \E k \in 0..MaxCommits :
                      \E entries \in [1..k -> RangeEntries] :
                          repo = RangeRepo(MergeCommit(1, author, TRUE),
                                           MakeVc(1, own, ParentResolved,
                                                  FALSE, entries))

\* One pass of the loop of main over merge_commits: a change that is not
\* empty is appended to pr_data; a git command that fails ends the process.
ReconstructChange ==
    /\ pc = "reconstruct"
    /\ LET merge_details == get_commit_range_details(repo.vc[midx],
                                merge_commits[midx], user_list)
       IN  IF merge_details.exits
           THEN /\ pc' = "exit_error"
                /\ UNCHANGED <<pr_data, midx>>
           ELSE /\ pr_data' = IF merge_details.change # <<>>
                              THEN Append(pr_data, merge_details.change[1])
                              ELSE pr_data
                /\ midx' = midx + 1
                /\ pc' = IF midx = Len(merge_commits) THEN "filter"
                         ELSE "reconstruct"
    /\ UNCHANGED <<run, all_prs, parsed, idx, scored_prs, cache_db,
                   analysis_db, api_log, cache_reads, handed, db_after,
                   last_cached, lookup, last_saved, repo, user_list,
                   merge_commits>>

NextRange == ReconstructChange

SpecRange == InitRange /\ [][NextRange]_vars

\* ------------------------------------------------------ main from its start
\* The candidates of the repositories main is run on, by shape: a squashed
\* commit by alice, a merge by bob of bob's commit, a merge by alice without
\* a parent, a merge by alice of her own commit, and a merge by alice whose
\* commit `git show` fails on.
MainShapes == {"squashed", "untracked", "degenerate", "branch", "broken"}

MainMergeCommit(m, shape) ==
    IF shape = "squashed" THEN MergeCommit(m, "alice", FALSE)
    ELSE IF shape = "untracked" THEN MergeCommit(m, "bob", TRUE)
    ELSE IF shape = "branch"
    THEN [MergeCommit(m, "alice", TRUE) EXCEPT !.subject = RevertAddX]
    ELSE MergeCommit(m, "alice", TRUE)

MainVc(m, shape) ==
    LET Line(a, s) == [well_formed |-> TRUE, author |-> a, date |-> 1,
                       show |-> s]
    IN  IF shape = "squashed"
        THEN MakeVc(m, ShowStats, ParentNone, FALSE, <<>>)
        ELSE IF shape = "untracked"
        THEN MakeVc(m, ShowStats, ParentResolved, FALSE,
                    <<Line("bob", ShowStats)>>)
        ELSE IF shape = "degenerate"
        THEN MakeVc(m, ShowNothing, ParentNone, FALSE, <<>>)
        ELSE IF shape = "branch"
        THEN MakeVc(m, ShowStats, ParentResolved, FALSE,
                    <<Line("alice", ShowStats)>>)
        ELSE MakeVc(m, ShowStats, ParentResolved, FALSE,
                    <<Line("alice", ShowFailed)>>)

\* What the query for the authors since the date answers: it fails, it
\* finds no commit, or it finds commits of alice.
UserAnswers ==
    {[failed |-> TRUE, authors |-> {}],
     [failed |-> FALSE, authors |-> {}],
     [failed |-> FALSE, authors |-> {"alice"}]}

\* The cache the run can start from: an empty one, or the one an earlier run
\* left that had scored the squashed commit the range starts with.
MainWarmCaches(r) ==
    {{}} \cup
    (IF /\ r.users.authors = {"alice"}
        /\ r.merges.candidates # <<>>
        /\ ~r.merges.candidates[1].is_traditional_merge
     THEN {cache_response({},
              BuildPrompt(get_commit_range_details(r.vc[1],
                              r.merges.candidates[1], {"alice"}).change[1]),
              Model, <<ObjValid>>)}
     ELSE {})

InitMain ==
    /\ pc = "start"
    /\ FreshRun
    /\ user_list = {}
    /\ merge_commits = <<>>
    /\ midx = 1
    /\ \E users \in UserAnswers, merges_failed \in BOOLEAN :
          \E k \in 0..MaxMerges :
              \E shape \in [1..k -> MainShapes] :
                  /\ merges_failed => k = 0
                  /\ repo = [users |-> users,
                             merges |->
                                [failed |-> merges_failed,
                                 candidates |->
                                    [m \in 1..k |->
                                        MainMergeCommit(m, shape[m])]],
                             vc |-> [m \in 1..k |-> MainVc(m, shape[m])]]
    /\ cache_db \in MainWarmCaches(repo)

\* main, from get_all_users_from_repo to the test of user_list.
GetAllUsers ==
    /\ pc = "start"
    /\ IF repo.users.failed
       THEN pc' = "exit_error" /\ UNCHANGED user_list
       ELSE /\ user_list' = repo.users.authors
            /\ pc' = IF user_list' = {} THEN "exit_error" ELSE "merges"
    /\ UNCHANGED <<run, pr_data, all_prs, parsed, idx, scored_prs, cache_db,
                   analysis_db, api_log, cache_reads, handed, db_after,
                   last_cached, lookup, last_saved, repo, merge_commits,
                   midx>>

\* main, from get_merge_commits to the test of merge_commits.
GetMergeCommits ==
    /\ pc = "merges"
    /\ IF repo.merges.failed
       THEN /\ pc' = "exit_error"
            /\ UNCHANGED <<merge_commits, db_after>>
       ELSE /\ merge_commits' = repo.merges.candidates
            /\ pc' = IF merge_commits' = <<>> THEN "done" ELSE "reconstruct"
            /\ db_after' = IF merge_commits' = <<>>
                           THEN Append(db_after, analysis_db) ELSE db_after
    /\ UNCHANGED <<run, pr_data, all_prs, parsed, idx, scored_prs, cache_db,
                   analysis_db, api_log, cache_reads, handed, last_cached,
                   lookup, last_saved, repo, user_list, midx>>

NextMain ==
    \/ GetAllUsers
    \/ GetMergeCommits
    \/ ReconstructChange
    \/ Next

SpecMain == InitMain /\ [][NextMain]_vars

\* ---------------------------------------- extract_original_subject by itself
\* The revert prefixes a subject can carry, in several capitalisations.
RevertPrefixes ==
    {<<"R", "e", "v", "e", "r", "t", ":", " ">>,
     <<"R", "E", "V", "E", "R", "T", ":", " ">>,
     <<"R", "e", "v", "e", "r", "t", " ">>,
     <<"r", "E", "V", "E", "R", "T", " ">>}

\* A title that ends with a pull-request reference, and a title that holds
\* a quoted word.
AddX42 == AddX \o <<" ", "(", "#", "4", "2", ")">>
AddQuotedX == <<"A", "d", "d", " ", "\"", "X", "\"">>

\* What follows the prefixes: a bare title, a title in double or in single
\* quotes, a title that opens a quote and never closes it, a quoted title
\* with a reference inside the quotes, the same with a second reference
\* after the closing quote, and a quoted title with quotes of its own.
Remainders ==
    {AddX,
     <<"\"">> \o AddX \o <<"\"">>,
     <<"'">> \o AddX \o <<"'">>,
     <<"\"">> \o AddX,
     <<"'">> \o AddX,
     <<"\"">> \o AddX42 \o <<"\"">>,
     <<"\"">> \o AddX42 \o <<"\"", " ", "(", "#", "4", "3", ")">>,
     <<"\"">> \o AddQuotedX \o <<"\"">>}

RECURSIVE Flatten(_)
Flatten(texts) ==
    IF texts = <<>> THEN <<>> ELSE Head(texts) \o Flatten(Tail(texts))

\* filter_revert_chains is given one change, whose subject carries at most
\* MaxNesting revert prefixes.
InitExtract ==
    /\ pc = "filter"
    /\ run = 1
    /\ NoRepoState
    /\ \E k \in 0..MaxNesting :
          \E prefix \in [1..k -> RevertPrefixes], rest \in Remainders :
              pr_data = <<NewChange(1, Flatten(prefix) \o rest, 1)>>
    /\ all_prs = <<>>
    /\ parsed = <<>>
    /\ idx = 1
    /\ scored_prs = <<>>
    /\ cache_db = {}
    /\ analysis_db = {}
    /\ api_log = <<>>
    /\ cache_reads = {}
    /\ handed = <<>>
    /\ db_after = <<>>
    /\ last_cached = <<>>
    /\ lookup = NoLookup
    /\ last_saved = <<>>

NextExtract == FilterRevertChains

SpecExtract == InitExtract /\ [][NextExtract]_vars

\* --------------------------------------- runs with different --since windows
\* The revert of 'Add X (#42)' as a squashed pull request titles it.
RevertAddX42 ==
    <<"R", "e", "v", "e", "r", "t", " ", "\"">> \o AddX42
        \o <<"\"", " ", "(", "#", "4", "3", ")">>

WindowSubjects == {AddX42, RevertAddX42}

\* The m-th squashed commit of the history: alice landed it at date m.
LandedCommit(m, subject) ==
    [MergeCommit(m, "alice", FALSE) EXCEPT !.date = m, !.subject = subject]

\* git log --since: the commits of the history, which is listed newest
\* first, that are not older than since_date.
CommitsSince(history, since_date) ==
    LET InWindow(c) == c.date >= since_date
    IN  SelectSeq(history, InWindow)

\* What git answers during a run that was started with --since since_date
\* over the history: the authors and the candidates of the window, and the
\* details of each candidate.
WindowRepo(history, since_date) ==
    LET candidates == CommitsSince(history, since_date)
    IN  [users |-> [failed |-> FALSE,
                    authors |-> {candidates[i].author :
                                    i \in 1..Len(candidates)}],
         merges |-> [failed |-> FALSE, candidates |-> candidates],
         vc |-> [i \in 1..Len(candidates) |->
                    MakeVc(candidates[i].hash, ShowStats, ParentNone, FALSE,
                           <<>>)],
         history |-> history]

\* The first run over a repository that holds at most MaxMerges commits.
InitWindows ==
    /\ pc = "start"
    /\ FreshRun
    /\ user_list = {}
    /\ merge_commits = <<>>
    /\ midx = 1
    /\ cache_db = {}
    /\ \E k \in 0..MaxMerges, since_date \in 1..MaxMerges :
          \E subj \in [1..k -> WindowSubjects] :
              repo = WindowRepo([i \in 1..k |->
                                    LandedCommit(k + 1 - i, subj[k + 1 - i])],
                                since_date)

RunOver == pc \in {"done", "crashed", "exit_error"}

\* A commit lands in the repository between two runs.
CommitLands ==
    /\ RunOver
    /\ Len(repo.history) < MaxMerges
    /\ \E subject \in WindowSubjects :
          repo' = [repo EXCEPT !.history =
                      <<LandedCommit(Len(@) + 1, subject)>> \o @]
    /\ UNCHANGED <<pc, run, pr_data, all_prs, parsed, idx, scored_prs,
                   cache_db, analysis_db, api_log, cache_reads, handed,
                   db_after, last_cached, lookup, last_saved, user_list,
                   merge_commits, midx>>

\* main is started again with another --since; the two databases are the
\* ones the earlier runs left.
StartNextRun ==
    /\ RunOver
    /\ run < MaxRuns
    /\ run' = run + 1
    /\ \E since_date \in 1..MaxMerges :
          repo' = WindowRepo(repo.history, since_date)
    /\ pc' = "start"
    /\ pr_data' = <<>>
    /\ all_prs' = <<>>
    /\ parsed' = <<>>
    /\ idx' = 1
    /\ scored_prs' = <<>>
    /\ cache_reads' = {}
    /\ user_list' = {}
    /\ merge_commits' = <<>>
    /\ midx' = 1
    /\ UNCHANGED <<cache_db, analysis_db, api_log, handed, db_after,
                   last_cached, lookup, last_saved>>

NextWindows ==
    \/ CommitLands
    \/ StartNextRun
    \/ GetAllUsers
    \/ GetMergeCommits
    \/ ReconstructChange
    \/ Next

SpecWindows == InitWindows /\ [][NextWindows]_vars

\* ================================================================ claims
\* score_prs has returned and main has not gone on yet: save_analysis_to_db
\* changes none of what score_prs produced.
ScoringDone == pc = "save"

Members == 1..Len(pr_data)

\* The grouping key of the i-th change of pr_data.
GroupKey(i) == parsed[i].normalized_subject

\* The changes that share the normalized subject of the i-th change.
Group(i) == {j \in Members : GroupKey(j) = GroupKey(i)}

\* The record score_prs returned for the i-th change of pr_data.
ScoredRecord(i) ==
    scored_prs[CHOOSE k \in 1..Len(scored_prs) :
                    scored_prs[k].merge_hash = pr_data[i].merge_hash]

\* The i-th change went to external scoring in this run: score_prs looked
\* its prompt up in the cache, and called the API when that missed.
SentToScoring(i) == pr_data[i].merge_hash \in cache_reads

ApiCalled(i) ==
    \E k \in 1..Len(api_log) :
        api_log[k].run = run /\ api_log[k].merge_hash = pr_data[i].merge_hash

IsZeroLink(i) ==
    /\ ScoredRecord(i).impact_score = <<0>>
    /\ ScoredRecord(i).impact_assessment = <<RevertChainAssessment>>

IsRevertMember(i) == parsed[i].is_revert

\* i comes before j by merge timestamp, equal timestamps in input order.
ChronoBefore(i, j) ==
    \/ pr_data[i].merge_date < pr_data[j].merge_date
    \/ pr_data[i].merge_date = pr_data[j].merge_date /\ i < j

\* The k-th member of the group G in that order.
ChronoMember(G, k) ==
    CHOOSE i \in G : Cardinality({j \in G : ChronoBefore(j, i)}) = k - 1

\* active after the first k members of G: false at the start, flipped by a
\* revert member, set by any other member.
RECURSIVE ActiveAfter(_, _)
ActiveAfter(G, k) ==
    IF k = 0 THEN FALSE
    ELSE IF IsRevertMember(ChronoMember(G, k)) THEN ~ActiveAfter(G, k - 1)
    ELSE TRUE

\* C1: after filter_revert_chains and score_prs, in every group of two or
\* more changes with the same normalized subject at most one member went to
\* external scoring and at most one carries a score other than 0; every
\* member that did not go to external scoring has impact_score 0 and the
\* assessment 'Part of revert chain - no net impact'.
C1_AtMostOneScoredPerGroup ==
    ScoringDone =>
        \A i \in Members :
            Cardinality(Group(i)) >= 2 =>
                /\ Cardinality({j \in Group(i) : SentToScoring(j)}) <= 1
                /\ Cardinality({j \in Group(i) :
                        ScoredRecord(j).impact_score # <<0>>}) <= 1
                /\ \A j \in Group(i) : ~SentToScoring(j) => IsZeroLink(j)

\* A group of three in which one member was scored 3 by the API and the
\* other two are zero-scored links.
C1_Witness ==
    /\ ScoringDone
    /\ \E i \in Members :
        /\ Cardinality(Group(i)) = 3
        /\ SentToScoring(i)
        /\ ApiCalled(i)
        /\ ScoredRecord(i).impact_score = <<3>>
        /\ \A j \in Group(i) \ {i} : IsZeroLink(j)

\* C2: in a group whose members in merge-timestamp order are a non-revert,
\* a revert and a non-revert change (Original, Revert, Re-land), only the
\* Re-land goes to external scoring; Original and Revert get impact_score 0.
C2_OriginalRevertReland ==
    ScoringDone =>
        \A i \in Members :
            LET G == Group(i)
            IN  ( /\ Cardinality(G) = 3
                  /\ ~IsRevertMember(ChronoMember(G, 1))
                  /\ IsRevertMember(ChronoMember(G, 2))
                  /\ ~IsRevertMember(ChronoMember(G, 3)) )
                => /\ SentToScoring(ChronoMember(G, 3))
                   /\ ~SentToScoring(ChronoMember(G, 1))
                   /\ ~SentToScoring(ChronoMember(G, 2))
                   /\ ScoredRecord(ChronoMember(G, 1)).impact_score = <<0>>
                   /\ ScoredRecord(ChronoMember(G, 2)).impact_score = <<0>>

\* The chain "Add X", "Revert: Add X", "Add X", given newest first, with the
\* Re-land scored by the API.
C2_Witness ==
    /\ ScoringDone
    /\ Len(pr_data) = 3
    /\ pr_data[1].merge_subject = AddX /\ pr_data[1].merge_date = 2
    /\ pr_data[2].merge_subject = AddX /\ pr_data[2].merge_date = 1
    /\ pr_data[3].merge_subject = RevertAddX /\ pr_data[3].merge_date = 1
    /\ ApiCalled(1)
    /\ IsZeroLink(2) /\ IsZeroLink(3)

\* C3: in a group of two or more whose walk ends with active = false, every
\* member gets impact_score 0, and score_prs neither reads the cache nor
\* calls the API for any of them.
C3_CancelledChainNotScored ==
    ScoringDone =>
        \A i \in Members :
            LET G == Group(i)
            IN  (Cardinality(G) >= 2 /\ ~ActiveAfter(G, Cardinality(G)))
                => \A j \in G : /\ ScoredRecord(j).impact_score = <<0>>
                                /\ ~SentToScoring(j)
                                /\ ~ApiCalled(j)

\* The chain "Add X", "Revert: Add X" next to a change that was scored.
C3_Witness ==
    /\ ScoringDone
    /\ Len(pr_data) = 3
    /\ pr_data[1].merge_subject = AddX /\ pr_data[1].merge_date = 1
    /\ pr_data[2].merge_subject = RevertAddX /\ pr_data[2].merge_date = 2
    /\ pr_data[3].merge_subject = FixY
    /\ IsZeroLink(1) /\ IsZeroLink(2)
    /\ cache_reads = {pr_data[3].merge_hash}

\* How many revert prefixes the loop of extract_original_subject strips.
RECURSIVE NestedRevertCount(_)
NestedRevertCount(subject) ==
    LET step == StripRevertPrefix(subject)
    IN  IF step.matched THEN 1 + NestedRevertCount(step.subject) ELSE 0

\* The position of the member i of the group G in merge-timestamp order.
ChronoRank(G, i) == 1 + Cardinality({j \in G : ChronoBefore(j, i)})

\* C4: a change whose subject carries an even number of nested revert
\* prefixes is unwrapped to the inner subject and is a forward member of its
\* chain: active is true once the walk has processed it.
C4_EvenRevertsActAsForward ==
    (pc # "filter" /\ parsed # <<>>) =>
        \A i \in Members :
            LET n == NestedRevertCount(pr_data[i].merge_subject)
            IN  (n > 0 /\ n % 2 = 0) =>
                    /\ ~StripRevertPrefix(parsed[i].original_subject).matched
                    /\ Cardinality(Group(i)) >= 2 =>
                            ActiveAfter(Group(i), ChronoRank(Group(i), i))

\* The scored record of the change with merge hash h.
ScoredByHash(h) ==
    scored_prs[CHOOSE k \in 1..Len(scored_prs) : scored_prs[k].merge_hash = h]

\* The content is a JSON object that carries both keys, fenced or not.
WellFormedAnswer(content) ==
    LET parsed_scores == ParseScores(content)
    IN  /\ parsed_scores.ok
        /\ parsed_scores.impact_score # <<>>
        /\ parsed_scores.impact_assessment # <<>>

RunEnded == pc \in {"done", "crashed"}

\* C5: when a call of the scoring API raises, returns empty content or
\* returns content that is not a well-formed JSON object with impact_score
\* and impact_assessment, that change ends with impact_score 1 and an
\* assessment that describes the error, and the batch is still persisted:
\* the run ends normally with every scored change in the store.
C5_FailedCallDegradesToOne ==
    RunEnded =>
        /\ \A k \in 1..Len(api_log) :
              ( /\ api_log[k].run = run
                /\ api_log[k].raised \/ ~WellFormedAnswer(api_log[k].content) )
              => LET r == ScoredByHash(api_log[k].merge_hash)
                 IN  /\ r.impact_score = <<DefaultScore>>
                     /\ r.impact_assessment # <<>>
                     /\ r.impact_assessment[1][1] = "Error during analysis: "
        /\ scored_prs # <<>> =>
              /\ pc = "done"
              /\ \A k \in 1..Len(scored_prs) :
                    AnalysisRow(scored_prs[k]) \in analysis_db

\* Both runs have ended.
RerunEnded == run = 2 /\ RunEnded

NoSecondRunCall == \A k \in 1..Len(api_log) : api_log[k].run # 2

\* Both runs handed the same records to save_analysis_to_db and left the
\* same rows in the store.
SameRecordsBothRuns ==
    /\ Len(handed) = 2 => handed[1] = handed[2]
    /\ db_after[1] = db_after[2]

\* Every call of the first run returned a content that is not empty.
FirstRunCallsAnswered ==
    \A k \in 1..Len(api_log) :
        api_log[k].run = 1 =>
            ~api_log[k].raised /\ api_log[k].content # <<>>

C7_CacheRoundTrip ==
    /\ \A pair \in CachePairs :
          get_cached_response(cache_db, pair[1], pair[2]) = last_cached[pair]
    /\ \A r1 \in cache_db, r2 \in cache_db :
          r1.prompt_hash = r2.prompt_hash => r1 = r2

\* C8: the key of a row belongs to the (prompt, model) pair of that row and
\* to no other pair, and a lookup finds a response only for a pair that a
\* response was stored for.
C8_KeyedByPair ==
    /\ \A r \in cache_db : \A pair \in CachePairs :
          get_prompt_hash(pair[1], pair[2]) = r.prompt_hash
              => pair = <<r.prompt_content, r.model>>
    /\ lookup.result # <<>> =>
          last_cached[<<lookup.prompt, lookup.model>>] # <<>>

\* C9: every record handed to save_analysis_to_db has an impact_score in
\* 0..5, 0 exactly for the links the resolver zero-scored and 1..5 for the
\* changes that went to external scoring.
C9_ScoreInRange ==
    handed # <<>> =>
        LET records == handed[Len(handed)]
        IN  \A k \in 1..Len(records) :
                /\ records[k].impact_score # <<>>
                /\ records[k].impact_score[1] \in 0..5
                /\ records[k].impact_score[1] = 0
                      <=> records[k].merge_hash \notin cache_reads

\* The rows of the store that hold merge hash h.
RowsOf(h) == {r \in analysis_db : r.merge_hash = h}

\* C10: after any sequence of save_analysis_to_db calls the store holds at
\* most one row per merge_hash; it is the last record given for that hash by
\* the most recent call that gave one and committed, so the rows of hashes
\* a call does not give stay as they were.
C10_UpsertByMergeHash ==
    pc = "idle" /\ DOMAIN last_saved = StoreHashes =>
        \A h \in StoreHashes :
            /\ Cardinality(RowsOf(h)) <= 1
            /\ RowsOf(h) = {last_saved[h][k] : k \in 1..Len(last_saved[h])}

\* The last call replaced the row of hash 1, which an earlier call had
\* written with another score, and left the row of hash 2 alone.
C10_Witness ==
    /\ pc = "idle" /\ handed # <<>>
    /\ Len(handed[1]) = 2
    /\ handed[1][1] = StoreChange(1, <<1>>)
    /\ handed[1][2] = StoreChange(1, <<3>>)
    /\ analysis_db = {AnalysisRow(StoreChange(1, <<3>>)),
                      AnalysisRow(StoreChange(2, <<1>>))}

\* -------------------------------------------------- the merge reconstructor
\* main has run get_commit_range_details for its only candidate and the
\* process is still alive: pr_data is empty when the call returned {} and
\* holds the change it returned otherwise.
RangeReturned == pc = "filter" /\ Len(merge_commits) = 1 /\ midx = 2

TheMerge == merge_commits[1]

TheVc == repo.vc[1]

MergeTracked == TheMerge.author \in user_list

\* The candidate is a traditional merge whose first parent was resolved and
\* whose range query printed at least one line.
HasRange ==
    /\ TheMerge.is_traditional_merge
    /\ ~TheVc.parent.failed /\ TheVc.parent.output # <<>>
    /\ ~TheVc.range.failed /\ TheVc.range.lines # <<>>

\* The constituent commits: the lines of the range that carry a commit.
ConstituentLines ==
    IF HasRange
    THEN {j \in 1..Len(TheVc.range.lines) : TheVc.range.lines[j].well_formed}
    ELSE {}

TrackedLines ==
    {j \in ConstituentLines : TheVc.range.lines[j].author \in user_list}

\* What `git show` reports for the commit h under key, 0 when it reports
\* nothing that parses.
ShownStat(h, key) ==
    IF ~TheVc.show[h].failed /\ TheVc.show[h].parses
    THEN TheVc.show[h][key] ELSE 0

\* C11: get_commit_range_details returns a change only if the author of the
\* merge commit is tracked or at least one constituent commit has a tracked
\* author; in every other case it returns nothing.
C11_ChangeOnlyForTracked ==
    RangeReturned =>
        (pr_data # <<>> =>
            \/ MergeTracked
            \/ TrackedLines # {})

\* A merge by an untracked author is returned because of a tracked commit in
\* its range.
C11_Witness ==
    /\ RangeReturned
    /\ pr_data # <<>>
    /\ ~MergeTracked
    /\ TrackedLines # {}
    /\ pr_data[1].merge_hash = TheMerge.hash

\* C12: a squashed candidate by a tracked author gives a change with exactly
\* one constituent, the commit itself, development_hours = review_hours = 0
\* and the size `git show` reports for that commit; a squashed candidate by
\* an untracked author gives nothing.
C12_SquashedSingleConstituent ==
    (RangeReturned /\ ~TheMerge.is_traditional_merge) =>
        IF MergeTracked
        THEN /\ Len(pr_data) = 1
             /\ Len(pr_data[1].pr_commits) = 1
             /\ pr_data[1].pr_commits[1].hash = TheMerge.hash
             /\ pr_data[1].commits_count = 1
             /\ pr_data[1].development_hours = 0
             /\ pr_data[1].review_hours = 0
             /\ pr_data[1].additions = ShownStat(TheMerge.hash, "additions")
             /\ pr_data[1].deletions = ShownStat(TheMerge.hash, "deletions")
             /\ pr_data[1].files_changed
                   = ShownStat(TheMerge.hash, "files_changed")
        ELSE pr_data = <<>>

\* A squashed commit by alice whose stats are 2 insertions, 1 deletion in 3
\* files.
C12_Witness ==
    /\ RangeReturned
    /\ ~TheMerge.is_traditional_merge
    /\ MergeTracked
    /\ pr_data # <<>>
    /\ pr_data[1].additions = ShowStats.additions
    /\ pr_data[1].deletions = ShowStats.deletions
    /\ pr_data[1].files_changed = ShowStats.files_changed

\* The tracked constituents that no tracked constituent is earlier than.
EarliestTracked ==
    {j \in TrackedLines :
        \A k \in TrackedLines :
            TheVc.range.lines[j].date <= TheVc.range.lines[k].date}

\* C13: the field author of a change is the author of the earliest
\* constituent commit whose author is tracked, and the author of the merge
\* commit itself whenever no constituent commit has a tracked author.
C13_PrimaryAuthor ==
    (RangeReturned /\ pr_data # <<>>) =>
        IF TrackedLines # {}
        THEN \E j \in EarliestTracked :
                pr_data[1].author = TheVc.range.lines[j].author
        ELSE pr_data[1].author = TheMerge.author

\* C14: development_hours and review_hours are both zero whenever no
\* constituent commit has a tracked author, also when the range holds
\* untracked commits of different dates.
C14_NoTrackedCommitNoHours ==
    (RangeReturned /\ pr_data # <<>> /\ TrackedLines = {}) =>
        /\ pr_data[1].development_hours = 0
        /\ pr_data[1].review_hours = 0

RECURSIVE SumShown(_, _)
\* The sum over the commits of the lines js of what `git show` reports.
SumShown(js, key) ==
    IF js = {} THEN 0
    ELSE LET j == CHOOSE x \in js : TRUE
         IN  ShownStat(TheVc.range.lines[j].hash, key)
                + SumShown(js \ {j}, key)

\* The greatest files_changed `git show` reports for the lines js.
MaxShownFiles(js) ==
    CHOOSE n \in {ShownStat(TheVc.range.lines[j].hash, "files_changed") :
                    j \in js} \cup {0} :
        \A j \in js :
            ShownStat(TheVc.range.lines[j].hash, "files_changed") <= n

\* C15: for a traditional merge with constituents, additions and deletions
\* are the sums over all constituent commits and files_changed is the
\* greatest value over all constituent commits, whichever of them have
\* tracked authors.
C15_SizeOverAllConstituents ==
    (RangeReturned /\ pr_data # <<>> /\ ConstituentLines # {}) =>
        /\ pr_data[1].additions = SumShown(ConstituentLines, "additions")
        /\ pr_data[1].deletions = SumShown(ConstituentLines, "deletions")
        /\ pr_data[1].files_changed = MaxShownFiles(ConstituentLines)

\* A merge of one tracked and one untracked commit, each of 2 insertions and
\* 1 deletion in 3 files: the timing counts one commit, the size both.
C15_Witness ==
    /\ RangeReturned
    /\ pr_data # <<>>
    /\ Cardinality(ConstituentLines) = 2
    /\ Cardinality(TrackedLines) = 1
    /\ pr_data[1].commits_count = 1
    /\ pr_data[1].additions = ShowStats.additions + ShowStats.additions
    /\ pr_data[1].deletions = ShowStats.deletions + ShowStats.deletions
    /\ pr_data[1].files_changed = ShowStats.files_changed

\* The candidate is a traditional merge whose first parent is not resolved
\* or whose range is empty.
NoParentOrEmptyRange ==
    /\ TheMerge.is_traditional_merge
    /\ ~TheVc.parent.failed
    /\ \/ TheVc.parent.output = <<>>
       \/ ~TheVc.range.failed /\ TheVc.range.lines = <<>>

\* C16: for a traditional merge whose first parent is not resolved or whose
\* range is empty, a tracked merge author gives a change with zero
\* additions, deletions and files_changed and a constituent list that holds
\* exactly the merge commit itself; an untracked merge author gives nothing.
C16_DegenerateChange ==
    (RangeReturned /\ NoParentOrEmptyRange) =>
        IF MergeTracked
        THEN /\ Len(pr_data) = 1
             /\ pr_data[1].additions = 0
             /\ pr_data[1].deletions = 0
             /\ pr_data[1].files_changed = 0
             /\ Len(pr_data[1].pr_commits) = 1
             /\ pr_data[1].pr_commits[1].hash = TheMerge.hash
        ELSE pr_data = <<>>

\* The call for the only candidate is over: it returned or ended the process.
RangeCallOver ==
    /\ pc \in {"filter", "exit_error"}
    /\ Len(merge_commits) = 1
    /\ repo.vc # <<>>

\* `git show` fails, or prints nothing that parses, for a constituent.
StatLookupFails ==
    \E j \in ConstituentLines :
        \/ TheVc.show[TheVc.range.lines[j].hash].failed
        \/ ~TheVc.show[TheVc.range.lines[j].hash].parses

\* C17: when the stats of a constituent commit cannot be looked up (the
\* query fails or returns nothing that parses), that commit counts zero
\* additions, deletions and files_changed; the change is still produced and
\* the loop over the merges goes on.
C17_StatFailureCountsZero ==
    ( /\ RangeCallOver
      /\ ~TheVc.show[TheMerge.hash].failed
      /\ MergeTracked \/ TrackedLines # {}
      /\ StatLookupFails )
    => /\ pc = "filter"
       /\ Len(pr_data) = 1
       /\ pr_data[1].additions = SumShown(ConstituentLines, "additions")
       /\ pr_data[1].deletions = SumShown(ConstituentLines, "deletions")
       /\ pr_data[1].files_changed = MaxShownFiles(ConstituentLines)

\* ------------------------------------------------------ main from its start
\* The process is over: main returned, died of an exception or called
\* sys.exit(1).
MainEnded == pc \in {"done", "crashed", "exit_error"}

\* The run had no data to analyse: the repository holds no commit since the
\* date, or no merge candidate, or no candidate gave a change.
NoDataToAnalyse ==
    /\ ~repo.users.failed
    /\ ~repo.merges.failed
    /\ \/ repo.users.authors = {}
       \/ repo.merges.candidates = <<>>
       \/ /\ midx = Len(merge_commits) + 1
          /\ pr_data = <<>>

\* C18: a run with no data to analyse (no commits since the date, no merge
\* that involves a tracked user, nothing left after the revert filter) ends
\* early with a non-error exit status, without a call of the scorer and
\* without a write to the analysis store.
C18_NoDataEndsCleanly ==
    (MainEnded /\ NoDataToAnalyse) =>
        /\ pc = "done"
        /\ api_log = <<>>
        /\ cache_reads = {}
        /\ handed = <<>>
        /\ analysis_db = {}

\* ---------------------------------------- extract_original_subject by itself
\* filter_revert_chains has called extract_original_subject for its only
\* change.
ExtractDone == pc # "filter" /\ Len(pr_data) = 1 /\ Len(parsed) = 1

TheSubject == pr_data[1].merge_subject

LowerCase(ch) ==
    IF ch = "R" THEN "r"
    ELSE IF ch = "E" THEN "e"
    ELSE IF ch = "V" THEN "v"
    ELSE IF ch = "T" THEN "t"
    ELSE ch

\* s starts with word in some capitalisation; word is in lower case.
StartsWithAnyCase(s, word) ==
    /\ Len(s) >= Len(word)
    /\ \A i \in 1..Len(word) : LowerCase(s[i]) = word[i]

\* s with the word that opens it written 'Revert'.
Capitalised(s) == <<"R">> \o RevertWord \o Drop(s, 6)

\* C19: the prefixes 'Revert:' and 'Revert ' are recognised at the start of
\* the subject in every capitalisation: such a subject is stripped and
\* flagged exactly as the subject that spells the word 'Revert' is.
C19_PrefixInAnyCase ==
    ( /\ ExtractDone
      /\ \/ StartsWithAnyCase(TheSubject,
                              <<"r", "e", "v", "e", "r", "t", ":">>)
         \/ StartsWithAnyCase(TheSubject,
                              <<"r", "e", "v", "e", "r", "t", " ">>) )
    => LET spelled == extract_original_subject(Capitalised(TheSubject))
       IN  /\ parsed[1].is_revert = spelled.is_revert
           /\ parsed[1].original_subject = spelled.subject

\* The text r is not wrapped in a pair of quotes: it opens with no quote, or
\* with a quote that does not occur again.
NotWrapped(r) ==
    \/ r = <<>>
    \/ Head(r) \notin {"\"", "'"}
    \/ \A i \in 2..Len(r) : r[i] # Head(r)

\* C20: for a subject that starts with 'Revert ' and whose remainder is not
\* wrapped in a pair of quotes, the prefix is stripped, is_revert is true and
\* the scan goes on with the remainder as it stands.
C20_UnquotedRemainderVerbatim ==
    ( /\ ExtractDone
      /\ Len(TheSubject) >= 7
      /\ SubSeq(TheSubject, 1, 7) = <<"R", "e", "v", "e", "r", "t", " ">>
      /\ NotWrapped(Drop(TheSubject, 7)) )
    => /\ parsed[1].is_revert
       /\ parsed[1].original_subject
             = extract_original_subject(Drop(TheSubject, 7)).subject

\* The quote characters a reverted title can be wrapped in.
QuoteChars == {"\"", "'"}

\* s is 'Revert ' followed by the quote q, the text inner, q again and a
\* rest that holds no q.
IsQuotedRevert(s, q, inner) ==
    LET n == Len(inner)
    IN  /\ Len(s) >= 9 + n
        /\ SubSeq(s, 1, 7) = <<"R", "e", "v", "e", "r", "t", " ">>
        /\ s[8] = q
        /\ SubSeq(s, 9, 8 + n) = inner
        /\ s[9 + n] = q
        /\ \A i \in (10 + n)..Len(s) : s[i] # q

\* The texts between position 9 and a later position of s.
InnerTexts(s) == {SubSeq(s, 9, e) : e \in 8..Len(s)}

\* The positions where s ends with a reference '(#digits)'.
RefStarts(s) ==
    {p \in 1..Len(s) :
        /\ Len(s) >= p + 3
        /\ s[p] = "("
        /\ s[p + 1] = "#"
        /\ s[Len(s)] = ")"
        /\ \A i \in (p + 2)..(Len(s) - 1) : IsDigit(s[i])}

\* key is s without one trailing reference and the whitespace before it.
IsKeyOf(key, s) ==
    IF RefStarts(s) = {}
    THEN key = s
    ELSE \E p \in RefStarts(s) :
            \E b \in 0..(p - 1) :
                /\ key = SubSeq(s, 1, b)
                /\ \A i \in (b + 1)..(p - 1) : s[i] \in Whitespace
                /\ b >= 1 => s[b] \notin Whitespace

FilterDone == pc # "filter" /\ Len(parsed) = Len(pr_data) /\ pr_data # <<>>

\* filter_revert_chains has just returned, and score_prs has yet to take its
\* first change.
JustFiltered == FilterDone /\ pc = "score" /\ idx = 1

\* The records filter_revert_chains returned for the i-th change of pr_data.
FilteredAt(i) ==
    {k \in 1..Len(all_prs) : all_prs[k].merge_hash = pr_data[i].merge_hash}

\* C22: a change that is alone in its normalized-subject group, revert or
\* not, comes out of filter_revert_chains as the record that went in, with
\* no impact_score set, and score_prs then takes it down the external
\* scoring path.
C22_LoneChangePassesThrough ==
    /\ JustFiltered =>
            \A i \in Members :
                Group(i) = {i} =>
                    /\ \A k \in FilteredAt(i) :
                            /\ all_prs[k] = pr_data[i]
                            /\ all_prs[k].impact_score = <<>>
                    /\ Cardinality(FilteredAt(i)) = 1
    /\ ScoringDone =>
            \A i \in Members : Group(i) = {i} => SentToScoring(i)

\* A lone revert next to a chain of two: the revert came through as it was
\* and the API was called for it.
C22_Witness ==
    /\ ScoringDone
    /\ Len(pr_data) = 3
    /\ \E i \in Members :
        /\ Group(i) = {i}
        /\ IsRevertMember(i)
        /\ \E k \in FilteredAt(i) : all_prs[k] = pr_data[i]
        /\ SentToScoring(i)
        /\ ApiCalled(i)

\* The record filter_revert_chains returned for the i-th change of pr_data.
FilteredRecord(i) == all_prs[CHOOSE k \in 1..Len(all_prs) : k \in FilteredAt(i)]

\* The i-th change came out with the score 0 of a chain link and is
\* otherwise as it went in.
IsZeroed(i) ==
    FilteredRecord(i) =
        [pr_data[i] EXCEPT !.impact_score = <<0>>,
                           !.impact_assessment = <<RevertChainAssessment>>]

\* How many revert members close the group G in merge-timestamp order.
RECURSIVE TrailingReverts(_, _)
TrailingReverts(G, k) ==
    IF k = 0 \/ ~IsRevertMember(ChronoMember(G, k)) THEN 0
    ELSE 1 + TrailingReverts(G, k - 1)

\* C23: in a group of two or more, walked in merge-timestamp order with
\* active false at the start, flipped by a revert member and set by any
\* other member, the last member is left for scoring when active ends true
\* and every other member is zero-scored; when active ends false every
\* member is zero-scored. After a non-revert member, active ends true
\* exactly when the number of revert members that follow it is even.
C23_ChainWalkParity ==
    JustFiltered =>
        \A i \in Members :
            LET G == Group(i)
                n == Cardinality(G)
                last == ChronoMember(G, n)
                k == TrailingReverts(G, n)
            IN  n >= 2 =>
                    /\ \A j \in G \ {last} : IsZeroed(j)
                    /\ IF ActiveAfter(G, n)
                       THEN FilteredRecord(last) = pr_data[last]
                       ELSE IsZeroed(last)
                    /\ k < n => (ActiveAfter(G, n) <=> k % 2 = 0)

\* 'Add X' followed by two reverts of it: active ends true and the second
\* revert is the member left for scoring.
C23_Witness ==
    /\ FilterDone
    /\ Len(pr_data) = 3
    /\ Group(1) = {1, 2, 3}
    /\ ~IsRevertMember(ChronoMember(Group(1), 1))
    /\ IsRevertMember(ChronoMember(Group(1), 2))
    /\ IsRevertMember(ChronoMember(Group(1), 3))
    /\ FilteredRecord(ChronoMember(Group(1), 3))
          = pr_data[ChronoMember(Group(1), 3)]
    /\ IsZeroed(ChronoMember(Group(1), 1))
    /\ IsZeroed(ChronoMember(Group(1), 2))

\* The fields of a change other than the two the scoring sets.
FrameFields(pr) == DOMAIN pr \ {"impact_score", "impact_assessment"}

\* The records a and b agree on every field but the two scoring fields.
SameButScoring(a, b) ==
    /\ DOMAIN a = DOMAIN b
    /\ \A f \in FrameFields(b) : a[f] = b[f]

\* C25: filter_revert_chains returns as many records as it was given, one
\* for each merge_hash of the input and none for any other, and each record
\* agrees with the input record on every field but impact_score and
\* impact_assessment.
C25_NothingDroppedOrDuplicated ==
    JustFiltered =>
        /\ Len(all_prs) = Len(pr_data)
        /\ \A k \in 1..Len(all_prs) :
                \E i \in Members : all_prs[k].merge_hash = pr_data[i].merge_hash
        /\ \A i \in Members :
                /\ Cardinality(FilteredAt(i)) = 1
                /\ SameButScoring(FilteredRecord(i), pr_data[i])

\* Three changes, two of them a cancelled chain: all three come out, the
\* chain zero-scored and the third as it went in.
C25_Witness ==
    /\ FilterDone
    /\ Len(pr_data) = 3
    /\ Len(all_prs) = 3
    /\ \E i, j \in Members :
        /\ Group(i) = {i}
        /\ Cardinality(Group(j)) = 2
        /\ \A m \in Group(j) : IsZeroed(m)
        /\ FilteredRecord(i) = pr_data[i]

\* The orders in which the changes of pr_data can be listed.
Orders ==
    {p \in [Members -> Members] : \A a, b \in Members : p[a] = p[b] => a = b}

\* pr_data listed in the order p.
Reordered(p) == [k \in Members |-> pr_data[p[k]]]

\* The merge hashes filter_revert_chains zero-scores when given pr_list.
ZeroedHashes(pr_list) ==
    LET out == filter_revert_chains(pr_list)
    IN  {out[k].merge_hash : k \in {m \in 1..Len(out) :
                                        out[m].impact_score = <<0>>}}

\* C26: whether filter_revert_chains zero-scores a merge_hash or leaves it
\* for external scoring does not depend on the order of the list it is
\* given: every order of the same changes gives the same assignment, equal
\* merge timestamps within a group included.
C26_OrderIndependent ==
    JustFiltered =>
        \A p \in Orders : ZeroedHashes(Reordered(p)) = ZeroedHashes(pr_data)

\* C27: score_prs returns one record for each change it was given, in the
\* order given, and each record differs from the change at most in
\* impact_score and impact_assessment, whatever the external call
\* returned: merge_hash, merge_subject, author, merge_date and the size and
\* timing fields are as they were.
C27_ScoringSetsOnlyTheScore ==
    ScoringDone =>
        /\ Len(scored_prs) = Len(all_prs)
        /\ \A k \in 1..Len(all_prs) : SameButScoring(scored_prs[k], all_prs[k])

\* The grouping key filter_revert_chains derives from a subject.
KeyOfSubject(subject) ==
    NormalizeSubject(extract_original_subject(subject).subject)

\* C24: whatever runs with whatever --since windows have been made over
\* the repository, among the persisted records whose subjects normalize to
\* the same key at most one has an impact_score other than 0.
C24_ChainCreditedOnceAcrossRuns ==
    \A r1, r2 \in analysis_db :
        ( /\ r1.merge_hash # r2.merge_hash
          /\ KeyOfSubject(r1.merge_subject) = KeyOfSubject(r2.merge_subject) )
        => (r1.impact_score = 0 \/ r2.impact_score = 0)

====
